---- MODULE Spec2Model ----
(***************************************************************************)
(* State-machine model of the AnnotationEditor component                   *)
(* (src/sidebar/components/annotation-editor.js): the draft of one         *)
(* annotation, the tag handlers onAddTag / onRemoveTag, the text handler   *)
(* onEditText, the save handler onSave and the shortcut handler onKeyDown. *)
(*                                                                         *)
(* Strings are sequences of one-character strings, so that trim() is       *)
(* computed and not assumed.  A draft is a record                          *)
(*   [annotation, text, tags, isPrivate];                                  *)
(* the null draft (getDraft finding nothing) is the record NullDraft,      *)
(* whose annotation is 0, the identity of no annotation.                   *)
(***************************************************************************)
EXTENDS Integers, Sequences, FiniteSets, TLC

(* ---------------------------- bounds ----------------------------------- *)

\* Longest tag sequence an add is allowed to produce.
MaxTags == 3

\* Most external save operations awaiting their result at one time.
MaxInflight == 1

\* Longest run of addTag / removeTag events with one string that the
\* history keeps together.
MaxRun == 3

(* ---------------------------- inputs ----------------------------------- *)

\* Annotation identities held by the draft store.
AnnIds == {1}

\* The `annotation` prop of the component under study.
annotation == 1

\* Characters String.prototype.trim strips (the ones the inputs use).
WhiteSpace == {" ", "\t"}

\* Strings handed to onAddTag / onRemoveTag or typed in the tag input.
Candidates ==
  { <<>>, <<" ">>, <<"a">>, <<"b">>, <<"A">>,
    <<" ", "a">>, <<"b", " ">>, <<"\t", "A", " ">> }

\* Strings the user leaves in the tag input: nothing, white space only, a
\* tag, a tag with white space behind it.
TagInputs == { <<>>, <<" ">>, <<"a">>, <<"b", " ">> }

\* Texts the markdown editor reports.
Texts == { <<>>, <<" ">>, <<"h", "i">> }

\* Field values createDraft is called with by the code that enters edit
\* mode: the tags are pairwise distinct.
InitOverrides ==
  { [text |-> <<>>, tags |-> <<>>, isPrivate |-> FALSE],
    [text |-> <<"h", "i">>, tags |-> << <<"a">>, <<" ", "a">> >>,
     isPrivate |-> TRUE] }

\* Raw event.key values and the modifier flags.
Keys == {"Enter", "Del"}

(* ------------------------ JavaScript built-ins ------------------------- *)

RECURSIVE trimStart(_)
trimStart(s) ==
  IF s # <<>> /\ Head(s) \in WhiteSpace THEN trimStart(Tail(s)) ELSE s

RECURSIVE trimEnd(_)
trimEnd(s) ==
  IF s # <<>> /\ s[Len(s)] \in WhiteSpace
    THEN trimEnd(SubSeq(s, 1, Len(s) - 1))
    ELSE s

\* trim that strips the leading white space only (String.prototype.trimStart).
trim_startOnly(s) == trimStart(s)

\* String.prototype.trim
trim(s) == trimEnd(trimStart(s))

\* Array.prototype.indexOf: 0-based index of the first element equal to v,
\* or -1.
indexOf(list, v) ==
  IF \E i \in 1..Len(list) : list[i] = v
    THEN (CHOOSE i \in 1..Len(list) :
            /\ list[i] = v
            /\ \A j \in 1..(i - 1) : list[j] # v) - 1
    ELSE -1

\* splice(index) without its delete count: everything from index on goes.
splice_toEnd(list, index) == SubSeq(list, 1, index)

\* Array.prototype.splice(index, 1) on a copy: the list without the element
\* at the 0-based index.
splice(list, index) ==
  SubSeq(list, 1, index) \o SubSeq(list, index + 2, Len(list))

(* ----------------------------- draft store ----------------------------- *)

NullDraft == [annotation |-> 0, text |-> <<>>, tags |-> <<>>, isPrivate |-> FALSE]

\* store.getDraft(annotation): the draft of that annotation, or null.
getDraft(ds, a) ==
  IF \E i \in 1..Len(ds) : ds[i].annotation = a
    THEN ds[CHOOSE i \in 1..Len(ds) : ds[i].annotation = a]
    ELSE NullDraft

NotOf(a, d) == d.annotation # a

\* store.createDraft(annotation, changes): drop the annotation's draft, if
\* any, and store a new one built from the changes.
createDraft(ds, a, changes) ==
  Append(SelectSeq(ds, LAMBDA d : NotOf(a, d)),
         [annotation |-> a, text |-> changes.text, tags |-> changes.tags,
          isPrivate |-> changes.isPrivate])

\* store.removeDraft(annotation): drop the annotation's draft, if any.
removeDraft(ds, a) == SelectSeq(ds, LAMBDA d : NotOf(a, d))

(* ------------------------------ state ---------------------------------- *)

VARIABLES
  drafts,     \* the draft store: a sequence of drafts
  rendered,   \* the draft captured by the last render (`draft`, line 44)
  tagInput,   \* tagInputRef.current.value
  inflight,   \* external saves invoked and not yet resolved or rejected
  attempts,   \* per pending save: the draft and tag input it was called on
              \* (history)
  last        \* what the last event did (history)

vars == <<drafts, rendered, tagInput, inflight, attempts, last>>

\* The draft of the component's annotation in the store.
Draft == getDraft(drafts, annotation)

(* ------------------------ shared/browser utils -------------------------- *)

\* normalizeKeyName(key): legacy key names mapped to the standard ones, any
\* other name returned as it is.
normalizeKeyName(key) ==
  CASE key = "Left" -> "ArrowLeft"
    [] key = "Up" -> "ArrowUp"
    [] key = "Down" -> "ArrowDown"
    [] key = "Right" -> "ArrowRight"
    [] key = "Spacebar" -> " "
    [] key = "Del" -> "Delete"
    [] OTHER -> key

(* ----------------------------- handlers -------------------------------- *)
(* A handler is an operator of the store `ds` it acts on and of the draft  *)
(* `draft` its closure captured at render; it yields the new store, its    *)
(* return value, the collaborator calls it made (in order) and the         *)
(* argument of tagsService.store.                                          *)

NoEffect(ds) == [drafts |-> ds, ret |-> FALSE, calls |-> <<>>, stored |-> <<>>]

\* isEmpty with || for &&.
isEmpty_either(draft) == Len(draft.text) = 0 \/ Len(draft.tags) = 0

\* const isEmpty = !text && !tags.length
isEmpty(draft) == Len(draft.text) = 0 /\ Len(draft.tags) = 0

\* onEditTags without the spread of draft: createDraft(draft.annotation,
\* {tags}), so that text and isPrivate fall back to the store's defaults.
onEditTags_noSpread(ds, draft, tags) ==
  createDraft(ds, draft.annotation,
              [text |-> <<>>, tags |-> tags, isPrivate |-> FALSE])

\* onEditTags({tags}): createDraft(draft.annotation, {...draft, tags})
onEditTags(ds, draft, tags) ==
  createDraft(ds, draft.annotation, [draft EXCEPT !.tags = tags])

\* Only the new tag is handed to tagsService.store.
tagRecords_newOnly(tagList) == <<[text |-> tagList[Len(tagList)]]>>

\* tagList.map(tag => ({ text: tag }))
tagRecords(tagList) == [i \in 1..Len(tagList) |-> [text |-> tagList[i]]]

\* onAddTag whose duplicate test reads `> 0` for `>= 0`.
onAddTag_dupOffByOne(ds, draft, newTag) ==
  LET value == trim(newTag)
      tagList == Append(draft.tags, value)
  IN  IF Len(value) = 0 THEN NoEffect(ds)
      ELSE IF indexOf(draft.tags, value) > 0 THEN NoEffect(ds)
      ELSE [drafts |-> onEditTags(ds, draft, tagList),
            ret |-> TRUE,
            calls |-> <<"tagsService.store", "createDraft">>,
            stored |-> tagRecords(tagList)]

\* onAddTag whose emptiness test reads newTag.length for value.length.
onAddTag_rawLength(ds, draft, newTag) ==
  LET value == trim(newTag)
      tagList == Append(draft.tags, value)
  IN  IF Len(newTag) = 0 THEN NoEffect(ds)
      ELSE IF indexOf(draft.tags, value) >= 0 THEN NoEffect(ds)
      ELSE [drafts |-> onEditTags(ds, draft, tagList),
            ret |-> TRUE,
            calls |-> <<"tagsService.store", "createDraft">>,
            stored |-> tagRecords(tagList)]

\* onAddTag whose duplicate test looks for newTag, not for the trimmed value.
onAddTag_rawDup(ds, draft, newTag) ==
  LET value == trim(newTag)
      tagList == Append(draft.tags, value)
  IN  IF Len(value) = 0 THEN NoEffect(ds)
      ELSE IF indexOf(draft.tags, newTag) >= 0 THEN NoEffect(ds)
      ELSE [drafts |-> onEditTags(ds, draft, tagList),
            ret |-> TRUE,
            calls |-> <<"tagsService.store", "createDraft">>,
            stored |-> tagRecords(tagList)]

onAddTag(ds, draft, newTag) ==
  LET value == trim(newTag)
      tagList == Append(draft.tags, value)
  IN  IF Len(value) = 0 THEN NoEffect(ds)
      ELSE IF indexOf(draft.tags, value) >= 0 THEN NoEffect(ds)
      ELSE [drafts |-> onEditTags(ds, draft, tagList),
            ret |-> TRUE,
            calls |-> <<"tagsService.store", "createDraft">>,
            stored |-> tagRecords(tagList)]

\* onRemoveTag whose test reads `index > 0` for `index >= 0`.
onRemoveTag_indexOffByOne(ds, draft, tag) ==
  LET index == indexOf(draft.tags, tag)
  IN  IF index > 0
        THEN [drafts |-> onEditTags(ds, draft, splice(draft.tags, index)),
              ret |-> TRUE,
              calls |-> <<"createDraft">>,
              stored |-> <<>>]
        ELSE NoEffect(ds)

\* onRemoveTag that trims its argument before it looks for it.
onRemoveTag_trims(ds, draft, tag) ==
  LET index == indexOf(draft.tags, trim(tag))
  IN  IF index >= 0
        THEN [drafts |-> onEditTags(ds, draft, splice(draft.tags, index)),
              ret |-> TRUE,
              calls |-> <<"createDraft">>,
              stored |-> <<>>]
        ELSE NoEffect(ds)

onRemoveTag(ds, draft, tag) ==
  LET index == indexOf(draft.tags, tag)
  IN  IF index >= 0
        THEN [drafts |-> onEditTags(ds, draft, splice(draft.tags, index)),
              ret |-> TRUE,
              calls |-> <<"createDraft">>,
              stored |-> <<>>]
        ELSE NoEffect(ds)

\* onEditText that hands createDraft another identity than draft.annotation
\* (a copy of the annotation, which the store takes for a different one).
onEditText_otherIdentity(ds, draft, text) ==
  [drafts |-> createDraft(ds, draft.annotation + 1,
                          [draft EXCEPT !.text = text]),
   ret |-> FALSE,
   calls |-> <<"createDraft">>,
   stored |-> <<>>]

\* onEditText({text}): createDraft(draft.annotation, {...draft, text})
onEditText(ds, draft, text) ==
  [drafts |-> createDraft(ds, draft.annotation, [draft EXCEPT !.text = text]),
   ret |-> FALSE,
   calls |-> <<"createDraft">>,
   stored |-> <<>>]

\* onSave that returns without saving when the flush added no tag.
onSave_saveIfFlushed(ds, draft, input) ==
  LET flush == IF input # <<>> THEN onAddTag(ds, draft, input) ELSE NoEffect(ds)
  IN  [drafts |-> flush.drafts,
       ret |-> FALSE,
       calls |-> (IF input # <<>> THEN <<"onAddTag">> ELSE <<>>)
                   \o flush.calls
                   \o (IF input # <<>> /\ ~flush.ret
                         THEN <<>>
                         ELSE <<"annotationsService.save">>),
       stored |-> flush.stored]

\* onSave whose flush stores the new tag as the only tag.
onSave_flushReplaces(ds, draft, input) ==
  LET add == IF input # <<>> THEN onAddTag(ds, draft, input) ELSE NoEffect(ds)
      flush == IF add.ret
                 THEN [add EXCEPT
                         !.drafts = onEditTags(ds, draft, <<trim(input)>>)]
                 ELSE add
  IN  [drafts |-> flush.drafts,
       ret |-> FALSE,
       calls |-> (IF input # <<>> THEN <<"onAddTag">> ELSE <<>>)
                   \o flush.calls \o <<"annotationsService.save">>,
       stored |-> flush.stored]

\* onSave up to its await: the flush of the tag input, then the call of the
\* external save operation.
onSave(ds, draft, input) ==
  LET flush == IF input # <<>> THEN onAddTag(ds, draft, input) ELSE NoEffect(ds)
  IN  [drafts |-> flush.drafts,
       ret |-> FALSE,
       calls |-> (IF input # <<>> THEN <<"onAddTag">> ELSE <<>>)
                   \o flush.calls \o <<"annotationsService.save">>,
       stored |-> flush.stored]

\* onSave with an empty catch block: the rejection is dropped unreported.
onSaveSettled_noToast(rejects) ==
  [calls |-> <<>>, outcome |-> "fulfilled"]

\* onSave whose catch block reports the error and throws it again.
onSaveSettled_rethrows(rejects) ==
  IF rejects
    THEN [calls |-> <<"toastMessenger.error">>, outcome |-> "rejected"]
    ELSE [calls |-> <<>>, outcome |-> "fulfilled"]

\* onSave after its await: what it does when the external save rejects
\* (rejects = TRUE) or resolves, and how its own promise settles.
onSaveSettled(rejects) ==
  IF rejects
    THEN [calls |-> <<"toastMessenger.error">>, outcome |-> "fulfilled"]
    ELSE [calls |-> <<>>, outcome |-> "fulfilled"]

\* onKeyDown without its `if (isEmpty) return`.
onKeyDown_noEmptyCheck(ds, draft, input, key, metaKey, ctrlKey) ==
  LET k == normalizeKeyName(key)
      quiet == [drafts |-> ds, calls |-> <<>>, stored |-> <<>>,
                stopped |-> FALSE, prevented |-> FALSE]
      save == onSave(ds, draft, input)
  IN  IF (metaKey \/ ctrlKey) /\ k = "Enter"
        THEN [drafts |-> save.drafts,
              calls |-> <<"onSave">> \o save.calls,
              stored |-> save.stored,
              stopped |-> TRUE, prevented |-> TRUE]
        ELSE quiet

\* onKeyDown that wants metaKey && ctrlKey, not metaKey || ctrlKey.
onKeyDown_bothModifiers(ds, draft, input, key, metaKey, ctrlKey) ==
  LET k == normalizeKeyName(key)
      quiet == [drafts |-> ds, calls |-> <<>>, stored |-> <<>>,
                stopped |-> FALSE, prevented |-> FALSE]
      save == onSave(ds, draft, input)
  IN  IF isEmpty(draft) THEN quiet
      ELSE IF (metaKey /\ ctrlKey) /\ k = "Enter"
        THEN [drafts |-> save.drafts,
              calls |-> <<"onSave">> \o save.calls,
              stored |-> save.stored,
              stopped |-> TRUE, prevented |-> TRUE]
        ELSE quiet

\* onKeyDown(event): the handler's effect and whether it stopped the
\* event's propagation and prevented its default.
onKeyDown(ds, draft, input, key, metaKey, ctrlKey) ==
  LET k == normalizeKeyName(key)
      quiet == [drafts |-> ds, calls |-> <<>>, stored |-> <<>>,
                stopped |-> FALSE, prevented |-> FALSE]
      save == onSave(ds, draft, input)
  IN  IF isEmpty(draft) THEN quiet
      ELSE IF (metaKey \/ ctrlKey) /\ k = "Enter"
        THEN [drafts |-> save.drafts,
              calls |-> <<"onSave">> \o save.calls,
              stored |-> save.stored,
              stopped |-> TRUE, prevented |-> TRUE]
        ELSE quiet

(* ------------------------------ actions -------------------------------- *)

\* How many times fn occurs in a sequence of calls.
Count(calls, fn) == Cardinality({i \in 1..Len(calls) : calls[i] = fn})

Quiet ==
  [op |-> "init", arg |-> <<>>, key |-> "", metaKey |-> FALSE,
   ctrlKey |-> FALSE, ret |-> FALSE, pre |-> NullDraft, calls |-> <<>>,
   stored |-> <<>>, stopped |-> FALSE, prevented |-> FALSE,
   outcome |-> "none", run |-> <<>>, base |-> <<>>,
   since |-> NullDraft, undisturbed |-> FALSE]

\* The history of a pending save that another event has overtaken: a draft
\* was stored between its call and now.
Lapsed == [pre |-> NullDraft, arg |-> <<>>, undisturbed |-> FALSE]

\* The pending saves once an event has left the store as ds: a save keeps
\* its history as long as the store is the one its own call left.
Disturb(ds) ==
  IF ds = drafts THEN attempts ELSE [i \in 1..Len(attempts) |-> Lapsed]

\* The pending saves after an event that called the external save operation
\* n times (0 or 1) on the draft `draft` and the tag input `input`.
Attempted(ds, n, draft, input) ==
  IF n = 0 THEN Disturb(ds)
  ELSE Append(Disturb(ds),
              [pre |-> draft, arg |-> input, undisturbed |-> TRUE])

\* s without its element at position i (1-based).
Without(s, i) == SubSeq(s, 1, i - 1) \o SubSeq(s, i + 1, Len(s))

\* A run is a sequence of tag events with one string, the first of them an
\* addTag, with no event other than a render between them.  Does a tag
\* event with the string arg continue the run the last event belongs to?
Continues(arg) ==
  /\ last.run # <<>>
  /\ last.arg = arg
  /\ Len(last.run) < MaxRun

\* The run that ends in the tag event (op, ret) with the string arg (no run
\* for a removeTag that continues none), and the tags in the store before
\* the first event of that run.
RunWith(op, arg, ret) ==
  IF Continues(arg) THEN Append(last.run, [op |-> op, ret |-> ret])
  ELSE IF op = "addTag" THEN <<[op |-> op, ret |-> ret]>>
  ELSE <<>>

BaseWith(op, arg) ==
  IF Continues(arg) THEN last.base
  ELSE IF op = "addTag" THEN Draft.tags
  ELSE <<>>

\* The component without its `if (!draft) return null`.
Mounted_always == TRUE

\* The component rendered its editor (line 50 did not return null).
Mounted == rendered # NullDraft

\* Handlers that are called whether or not the component has rendered the
\* store's draft (no re-render on a store change).
UpToDate_always == TRUE

\* No re-render is pending: the closures hold the store's draft.  The
\* handlers read `draft` and `tags` as captured by the last render; a store
\* change makes useStore schedule a render, which runs once the handler has
\* returned and before the next UI event is dispatched, so a UI event finds
\* the closures of the current draft.
UpToDate == rendered = Draft

Ready == Mounted /\ UpToDate

WithinTags(ds) == Len(getDraft(ds, annotation).tags) <= MaxTags

Init ==
  /\ drafts = <<>>
  /\ rendered = NullDraft
  /\ tagInput = <<>>
  /\ inflight = 0
  /\ attempts = <<>>
  /\ last = Quiet

\* The code entering edit mode (outside the component) creates or replaces
\* the draft of an annotation.
CreateDraft ==
  \E a \in AnnIds, o \in InitOverrides :
    /\ UpToDate
    /\ drafts' = createDraft(drafts, a, o)
    /\ attempts' = Disturb(createDraft(drafts, a, o))
    /\ last' = [Quiet EXCEPT !.op = "createDraft", !.pre = Draft]
    /\ UNCHANGED <<rendered, tagInput, inflight>>

\* The code that ends editing (outside the component) discards the draft.
RemoveDraft ==
  \E a \in AnnIds :
    /\ UpToDate
    /\ getDraft(drafts, a) # NullDraft
    /\ drafts' = removeDraft(drafts, a)
    /\ attempts' = Disturb(removeDraft(drafts, a))
    /\ last' = [Quiet EXCEPT !.op = "removeDraft", !.pre = Draft]
    /\ UNCHANGED <<rendered, tagInput, inflight>>

\* useStore notices the changed draft and the component renders again.  With
\* no draft it renders nothing: the tag input is gone, and a later editor
\* starts with an empty one.
Render ==
  /\ rendered # Draft
  /\ rendered' = Draft
  /\ tagInput' = IF Draft = NullDraft THEN <<>> ELSE tagInput
  /\ UNCHANGED <<drafts, inflight, attempts, last>>

\* The user types in the tag input.
TypeTagInput ==
  \E v \in TagInputs :
    /\ Ready
    /\ v # tagInput
    /\ tagInput' = v
    /\ last' = [Quiet EXCEPT !.op = "typeTag", !.arg = v, !.pre = Draft]
    /\ UNCHANGED <<drafts, rendered, inflight, attempts>>

AddTag ==
  /\ Ready
  /\ \E newTag \in Candidates :
    \E e \in {onAddTag(drafts, rendered, newTag)} :
    /\ WithinTags(e.drafts)
    /\ drafts' = e.drafts
    /\ attempts' = Disturb(e.drafts)
    /\ last' = [Quiet EXCEPT !.op = "addTag", !.arg = newTag, !.ret = e.ret,
                             !.pre = Draft, !.calls = e.calls,
                             !.stored = e.stored,
                             !.run = RunWith("addTag", newTag, e.ret),
                             !.base = BaseWith("addTag", newTag)]
    /\ UNCHANGED <<rendered, tagInput, inflight>>

RemoveTag ==
  /\ Ready
  /\ \E tag \in Candidates :
    \E e \in {onRemoveTag(drafts, rendered, tag)} :
    /\ drafts' = e.drafts
    /\ attempts' = Disturb(e.drafts)
    /\ last' = [Quiet EXCEPT !.op = "removeTag", !.arg = tag, !.ret = e.ret,
                             !.pre = Draft, !.calls = e.calls,
                             !.stored = e.stored,
                             !.run = RunWith("removeTag", tag, e.ret),
                             !.base = BaseWith("removeTag", tag)]
    /\ UNCHANGED <<rendered, tagInput, inflight>>

EditText ==
  /\ Ready
  /\ \E text \in Texts :
    \E e \in {onEditText(drafts, rendered, text)} :
    /\ drafts' = e.drafts
    /\ attempts' = Disturb(e.drafts)
    /\ last' = [Quiet EXCEPT !.op = "editText", !.arg = text, !.pre = Draft,
                             !.calls = e.calls]
    /\ UNCHANGED <<rendered, tagInput, inflight>>

\* The publish control calls onSave; it is disabled while isEmpty (line 157).
Save ==
  /\ Ready
  /\ ~isEmpty(rendered)
  /\ inflight < MaxInflight
  /\ \E e \in {onSave(drafts, rendered, tagInput)} :
    /\ WithinTags(e.drafts)
    /\ drafts' = e.drafts
    /\ inflight' = inflight + Count(e.calls, "annotationsService.save")
    /\ attempts' = Attempted(e.drafts,
                             Count(e.calls, "annotationsService.save"),
                             Draft, tagInput)
    /\ last' = [Quiet EXCEPT !.op = "save", !.arg = tagInput, !.pre = Draft,
                             !.calls = e.calls, !.stored = e.stored,
                             !.outcome = "pending"]
    /\ UNCHANGED <<rendered, tagInput>>

KeyDown ==
  /\ Ready
  /\ \E key \in Keys, metaKey \in BOOLEAN, ctrlKey \in BOOLEAN :
    \E e \in {onKeyDown(drafts, rendered, tagInput, key, metaKey, ctrlKey)} :
    /\ inflight + Count(e.calls, "annotationsService.save") <= MaxInflight
    /\ WithinTags(e.drafts)
    /\ drafts' = e.drafts
    /\ inflight' = inflight + Count(e.calls, "annotationsService.save")
    /\ attempts' = Attempted(e.drafts,
                             Count(e.calls, "annotationsService.save"),
                             Draft, tagInput)
    /\ last' = [Quiet EXCEPT !.op = "keydown", !.arg = tagInput, !.key = key,
                             !.metaKey = metaKey, !.ctrlKey = ctrlKey,
                             !.pre = Draft, !.calls = e.calls,
                             !.stored = e.stored, !.stopped = e.stopped,
                             !.prevented = e.prevented]
    /\ UNCHANGED <<rendered, tagInput>>

\* onSave that, once the save has resolved, stores an empty draft (text and
\* tags cleared), whatever was edited in the meantime.
SaveResolved_clearsDraft ==
  \E i \in 1..Len(attempts) :
    LET e == onSaveSettled(FALSE) IN
    /\ inflight > 0
    /\ inflight' = inflight - 1
    /\ attempts' = Without(attempts, i)
    /\ drafts' = IF Draft = NullDraft THEN drafts
                 ELSE createDraft(drafts, annotation,
                                  [Draft EXCEPT !.text = <<>>, !.tags = <<>>])
    /\ last' = [Quiet EXCEPT !.op = "saveResolved", !.pre = Draft,
                             !.arg = attempts[i].arg,
                             !.since = attempts[i].pre,
                             !.undisturbed = attempts[i].undisturbed,
                             !.calls = e.calls, !.outcome = e.outcome]
    /\ UNCHANGED <<rendered, tagInput>>

\* The external save operation of one of the pending saves resolves: that
\* onSave resumes after its await.
SaveResolved ==
  \E i \in 1..Len(attempts) :
    LET e == onSaveSettled(FALSE) IN
    /\ inflight > 0
    /\ inflight' = inflight - 1 + Count(e.calls, "annotationsService.save")
    /\ attempts' = Without(attempts, i)
    /\ last' = [Quiet EXCEPT !.op = "saveResolved", !.pre = Draft,
                             !.arg = attempts[i].arg,
                             !.since = attempts[i].pre,
                             !.undisturbed = attempts[i].undisturbed,
                             !.calls = e.calls, !.outcome = e.outcome]
    /\ UNCHANGED <<drafts, rendered, tagInput>>

\* The external save operation of one of the pending saves rejects: that
\* onSave resumes in its catch block.
SaveRejected ==
  \E i \in 1..Len(attempts) :
    LET e == onSaveSettled(TRUE) IN
    /\ inflight > 0
    /\ inflight' = inflight - 1 + Count(e.calls, "annotationsService.save")
    /\ attempts' = Without(attempts, i)
    /\ last' = [Quiet EXCEPT !.op = "saveRejected", !.pre = Draft,
                             !.arg = attempts[i].arg,
                             !.since = attempts[i].pre,
                             !.undisturbed = attempts[i].undisturbed,
                             !.calls = e.calls, !.outcome = e.outcome]
    /\ UNCHANGED <<drafts, rendered, tagInput>>

Next ==
  \/ CreateDraft
  \/ RemoveDraft
  \/ Render
  \/ TypeTagInput
  \/ AddTag
  \/ RemoveTag
  \/ EditText
  \/ Save
  \/ KeyDown
  \/ SaveResolved
  \/ SaveRejected

Spec == Init /\ [][Next]_vars

(* ----------------------- vocabulary of the claims ----------------------- *)
(* Stated on their own, not through the operators of the handlers, so that *)
(* a claim compares the code with what the words say.                      *)

\* t is s without its leading and trailing white space.
IsTrimOf(t, s) ==
  \E i \in 1..(Len(s) + 1), j \in 0..Len(s) :
    /\ i <= j + 1
    /\ t = SubSeq(s, i, j)
    /\ \A k \in 1..(i - 1) : s[k] \in WhiteSpace
    /\ \A k \in (j + 1)..Len(s) : s[k] \in WhiteSpace
    /\ t # <<>> => (t[1] \notin WhiteSpace /\ t[Len(t)] \notin WhiteSpace)

Trimmed(s) ==
  CHOOSE t \in {SubSeq(s, i, j) : i \in 1..(Len(s) + 1), j \in 0..Len(s)} :
    IsTrimOf(t, s)

In(v, list) == \E i \in 1..Len(list) : list[i] = v

Distinct(list) ==
  \A i, j \in 1..Len(list) : list[i] = list[j] => i = j

\* new is old without the element at position i (1-based).
IsWithout(new, old, i) ==
  /\ Len(new) = Len(old) - 1
  /\ \A j \in 1..(i - 1) : new[j] = old[j]
  /\ \A j \in i..Len(new) : new[j] = old[j + 1]

\* The tags that new keeps from old stand in new in the order they have in
\* old, and the tags new adds stand behind them.
OrderKept(old, new) ==
  \A i, j \in 1..Len(new) :
    (i < j /\ In(new[j], old)) =>
      \E a, b \in 1..Len(old) : a < b /\ old[a] = new[i] /\ old[b] = new[j]

EmptyDraft(d) == d.text = <<>> /\ d.tags = <<>>

Calls(fn) == Count(last.calls, fn)

\* The events of the component and of its pending saves: every event but
\* the creation of a draft by the code that enters edit mode.
CoreOps ==
  {"typeTag", "addTag", "removeTag", "editText", "save", "keydown",
   "saveResolved", "saveRejected"}

(* ------------------------------- claims -------------------------------- *)

\* C1: addTag(candidate) whose trimmed value is non-empty and not in the
\* draft's tags returns true, and the draft's tags become the previous tags
\* with the trimmed value appended at the end.
C1_AddTagAppends ==
  (/\ last.op = "addTag"
   /\ Trimmed(last.arg) # <<>>
   /\ ~In(Trimmed(last.arg), last.pre.tags))
  => /\ last.ret = TRUE
     /\ Draft.tags = Append(last.pre.tags, Trimmed(last.arg))

\* A padded candidate was appended to a draft that already had tags.
C1_Witness ==
  /\ last.op = "addTag"
  /\ last.ret = TRUE
  /\ last.arg # Trimmed(last.arg)
  /\ Len(last.pre.tags) >= 1
  /\ Draft.tags = Append(last.pre.tags, Trimmed(last.arg))

\* C2: addTag(candidate) whose trimmed value is already one of the draft's
\* tags (exact match) returns false and leaves the draft as it was: no
\* draft is stored and the length of the tags does not change.
C2_AddTagRejectsDuplicate ==
  (last.op = "addTag" /\ In(Trimmed(last.arg), last.pre.tags))
  => /\ last.ret = FALSE
     /\ Draft = last.pre
     /\ Len(Draft.tags) = Len(last.pre.tags)
     /\ Calls("createDraft") = 0

\* A padded candidate whose trimmed value is the first tag was rejected.
C2_Witness ==
  /\ last.op = "addTag"
  /\ last.ret = FALSE
  /\ last.arg # Trimmed(last.arg)
  /\ Len(last.pre.tags) >= 2
  /\ last.pre.tags[1] = Trimmed(last.arg)

\* C3: addTag(candidate) whose value is empty once trimmed (the empty string
\* or white space only) returns false, stores no draft and does not call the
\* tag-suggestion store.
C3_AddTagRejectsEmpty ==
  (last.op = "addTag" /\ Trimmed(last.arg) = <<>>)
  => /\ last.ret = FALSE
     /\ Draft = last.pre
     /\ Calls("createDraft") = 0
     /\ Calls("tagsService.store") = 0
     /\ last.stored = <<>>

\* A candidate of white space only was rejected.
C3_Witness ==
  /\ last.op = "addTag"
  /\ last.arg # <<>>
  /\ Trimmed(last.arg) = <<>>
  /\ last.ret = FALSE

\* C4: the draft's tags are pairwise distinct under exact string equality,
\* and every event of the component (addTag, removeTag, a text edit, save
\* with its flush, a shortcut) keeps the surviving tags in their order and
\* puts an added tag behind them.
C4_TagsDistinctInOrder ==
  /\ Distinct(Draft.tags)
  /\ Distinct(rendered.tags)
  /\ last.op \in CoreOps => OrderKept(last.pre.tags, Draft.tags)

\* A save flushed a padded tag input onto a draft of two tags.
C4_Witness ==
  /\ last.op = "save"
  /\ last.arg # Trimmed(last.arg)
  /\ Len(last.pre.tags) = 2
  /\ Len(Draft.tags) = 3

\* C5: removeTag(exact) with exact among the draft's tags returns true, and
\* the new tags are the old ones without the first element equal to exact,
\* the others in their order.
C5_RemoveTagRemovesOne ==
  (last.op = "removeTag" /\ In(last.arg, last.pre.tags))
  => /\ last.ret = TRUE
     /\ \E i \in 1..Len(last.pre.tags) :
          /\ last.pre.tags[i] = last.arg
          /\ \A j \in 1..(i - 1) : last.pre.tags[j] # last.arg
          /\ IsWithout(Draft.tags, last.pre.tags, i)

\* The middle one of three tags was removed.
C5_Witness ==
  /\ last.op = "removeTag"
  /\ last.ret = TRUE
  /\ Len(last.pre.tags) = 3
  /\ last.pre.tags[2] = last.arg
  /\ Draft.tags = <<last.pre.tags[1], last.pre.tags[3]>>

\* C6: removeTag(exact) with no tag of the draft exactly equal to exact
\* returns false and leaves the draft (text, tags, isPrivate) as it was; no
\* draft is stored.
C6_RemoveTagAbsent ==
  (last.op = "removeTag" /\ ~In(last.arg, last.pre.tags))
  => /\ last.ret = FALSE
     /\ Draft = last.pre
     /\ Calls("createDraft") = 0

\* removeTag of a padded string whose trimmed value is a tag: not an exact
\* match, so nothing is removed.
C6_Witness ==
  /\ last.op = "removeTag"
  /\ last.ret = FALSE
  /\ ~In(last.arg, last.pre.tags)
  /\ In(Trimmed(last.arg), last.pre.tags)

\* C7 as stated: when the external save rejects, one error notification is
\* emitted and the draft's text and tags after the failed attempt are the
\* ones from before save was called (no other event having stored a draft
\* between the call and the rejection).
C7_DraftSameAcrossFailedAttempt ==
  (last.op = "saveRejected" /\ last.undisturbed)
  => /\ Calls("toastMessenger.error") = 1
     /\ Draft.text = last.since.text
     /\ Draft.tags = last.since.tags

\* C7 (amended): when the external save rejects, exactly one error
\* notification is emitted for that attempt and handling the rejection
\* stores no draft: text and tags are the same right before and right after
\* it.  Over the whole attempt, when no other event stored a draft between
\* the call and the rejection, the text is unchanged and the tags are the
\* ones from before save was called, or those with the trimmed tag input
\* appended by the flush.
C7_RejectionKeepsDraft ==
  /\ last.op = "saveRejected"
     => /\ Calls("toastMessenger.error") = 1
        /\ Calls("createDraft") = 0
        /\ Draft = last.pre
  /\ (last.op = "saveRejected" /\ last.undisturbed)
     => /\ Draft.text = last.since.text
        /\ \/ Draft.tags = last.since.tags
           \/ Draft.tags = Append(last.since.tags, Trimmed(last.arg))

\* A save flushed a padded tag input onto the draft, its external save
\* rejected with no other draft stored in between, and one notification
\* was emitted.
C7_Witness ==
  /\ last.op = "saveRejected"
  /\ last.undisturbed
  /\ Calls("toastMessenger.error") = 1
  /\ last.arg # Trimmed(last.arg)
  /\ Draft.tags # last.since.tags
  /\ Draft.tags = Append(last.since.tags, Trimmed(last.arg))

\* C8: every call of save invokes the external save operation exactly once,
\* a rejection starts no further call of it, and onSave's own promise
\* fulfils whether the external save resolved or rejected.
C8_SaveOnceNeverRethrows ==
  /\ (last.op = "save" \/ Calls("onSave") = 1)
     => Calls("annotationsService.save") = 1
  /\ last.op \in {"saveResolved", "saveRejected"}
     => /\ Calls("annotationsService.save") = 0
        /\ last.outcome = "fulfilled"
  /\ last.outcome # "rejected"

\* The last pending save was rejected and onSave's promise fulfilled.
C8_Witness ==
  /\ last.op = "saveRejected"
  /\ last.outcome = "fulfilled"
  /\ inflight = 0

\* C9: on a draft of empty text and no tags, a key press of any key with any
\* modifiers, whatever the tag input holds, triggers no save, stores no
\* draft and leaves the event unsuppressed.
C9_ShortcutOnEmptyDraft ==
  (last.op = "keydown" /\ EmptyDraft(last.pre))
  => /\ last.calls = <<>>
     /\ Draft = last.pre
     /\ ~last.stopped
     /\ ~last.prevented

\* Ctrl+Enter on an empty draft with text waiting in the tag input.
C9_Witness ==
  /\ last.op = "keydown"
  /\ EmptyDraft(last.pre)
  /\ last.key = "Enter"
  /\ last.ctrlKey
  /\ Trimmed(last.arg) # <<>>
  /\ last.calls = <<>>

\* C10: on a draft that is not empty, a key press triggers exactly one save
\* and suppresses the event if and only if the normalized key is "Enter"
\* and metaKey or ctrlKey is set; any other press triggers no save and
\* leaves the event unsuppressed.
C10_ShortcutOnNonEmptyDraft ==
  (last.op = "keydown" /\ ~EmptyDraft(last.pre))
  => IF normalizeKeyName(last.key) = "Enter" /\ (last.metaKey \/ last.ctrlKey)
       THEN /\ Calls("onSave") = 1
            /\ Calls("annotationsService.save") = 1
            /\ last.stopped
            /\ last.prevented
       ELSE /\ last.calls = <<>>
            /\ Draft = last.pre
            /\ ~last.stopped
            /\ ~last.prevented

\* Meta+Enter without ctrl on a draft with text saved once.
C10_Witness ==
  /\ last.op = "keydown"
  /\ ~EmptyDraft(last.pre)
  /\ last.key = "Enter"
  /\ last.metaKey
  /\ ~last.ctrlKey
  /\ Calls("annotationsService.save") = 1
  /\ last.stopped
  /\ last.prevented

\* The events in which a handler of the component is called.
HandlerOps ==
  {"typeTag", "addTag", "removeTag", "editText", "save", "keydown"}

\* Does t extend s by exactly one element at the end?
ExtendsByOne(t, s) ==
  Len(t) = Len(s) + 1 /\ \A i \in 1..Len(s) : t[i] = s[i]

\* C11: a draft exists only after an explicit createDraft: before any
\* createDraft getDraft finds nothing and nothing is rendered; no handler
\* (addTag, removeTag, text edit, save, shortcut) runs while the draft is
\* absent, and only createDraft takes the store from no draft to a draft.
C11_DraftOnlyByCreate ==
  /\ last.op = "init" => (Draft = NullDraft /\ rendered = NullDraft)
  /\ last.op \in HandlerOps => last.pre # NullDraft
  /\ (last.pre = NullDraft /\ Draft # NullDraft) => last.op = "createDraft"

\* The draft was discarded while a save was pending; the rejection of that
\* save was handled with nothing rendered and left the store without draft.
C11_Witness ==
  /\ last.op = "saveRejected"
  /\ last.pre = NullDraft
  /\ Draft = NullDraft
  /\ rendered = NullDraft

\* C12: no event of the component deletes or clears the draft: a draft that
\* exists before addTag, removeTag, a text edit, a shortcut or a save (its
\* call, its resolution or its rejection) exists after it; the flush of a
\* save leaves the text alone and leaves the tags alone or appends one tag.
C12_CoreKeepsDraft ==
  /\ (last.op \in CoreOps /\ last.pre # NullDraft)
     => (Draft # NullDraft /\ Draft.annotation = last.pre.annotation)
  /\ last.op \in {"save", "keydown"}
     => /\ Draft.text = last.pre.text
        /\ Draft.tags = last.pre.tags \/ ExtendsByOne(Draft.tags, last.pre.tags)
  /\ last.op \in {"saveResolved", "saveRejected"} => Draft = last.pre

\* The shortcut saved a draft with text and two tags, and its flush added a
\* third tag.
C12_Witness ==
  /\ last.op = "keydown"
  /\ last.pre.text # <<>>
  /\ Len(last.pre.tags) = 2
  /\ ExtendsByOne(Draft.tags, last.pre.tags)
  /\ Draft.text = last.pre.text

\* C13: the store never holds two drafts of one annotation: createDraft for
\* an annotation that has a draft overwrites it, and every text or tag edit
\* replaces the stored draft of the same annotation.
C13_OneDraftPerAnnotation ==
  /\ \A i, j \in 1..Len(drafts) :
       drafts[i].annotation = drafts[j].annotation => i = j
  /\ last.op = "createDraft"
     => Cardinality({i \in 1..Len(drafts) :
                       drafts[i].annotation = annotation}) = 1
  /\ (last.op \in CoreOps /\ last.pre # NullDraft)
     => /\ Len(drafts) = 1
        /\ drafts[1].annotation = last.pre.annotation

\* createDraft was called for an annotation that had a different draft, and
\* the store holds the new one only.
C13_Witness ==
  /\ last.op = "createDraft"
  /\ last.pre # NullDraft
  /\ Draft # last.pre
  /\ Len(drafts) = 1

\* Was onSave called in the last event (by the publish control or by the
\* shortcut)?
SaveCalled == last.op = "save" \/ Calls("onSave") = 1

\* C14: save with text in the tag input calls addTag on that text before it
\* invokes the external save operation, and invokes the external save
\* exactly once whether addTag returned true or false; with an empty tag
\* input it calls no addTag and still invokes the external save once.
C14_FlushThenSaveOnce ==
  SaveCalled
  => /\ Calls("annotationsService.save") = 1
     /\ IF last.arg # <<>>
          THEN /\ Calls("onAddTag") = 1
               /\ \E i, j \in 1..Len(last.calls) :
                    /\ i < j
                    /\ last.calls[i] = "onAddTag"
                    /\ last.calls[j] = "annotationsService.save"
          ELSE Calls("onAddTag") = 0

\* A save found a duplicate of a tag in the tag input: addTag returned
\* false, the draft stayed, and the external save was invoked all the same.
C14_Witness ==
  /\ last.op = "save"
  /\ Trimmed(last.arg) # <<>>
  /\ In(Trimmed(last.arg), last.pre.tags)
  /\ Draft = last.pre
  /\ last.calls = <<"onAddTag", "annotationsService.save">>

\* A text of no characters or of white space only.
Blank(text) == \A i \in 1..Len(text) : text[i] \in WhiteSpace

\* The last event was a press of Enter with metaKey or ctrlKey.
ShortcutPressed ==
  /\ last.op = "keydown"
  /\ normalizeKeyName(last.key) = "Enter"
  /\ last.metaKey \/ last.ctrlKey

\* C15 as stated: the shortcut handler takes the draft for empty exactly
\* when its text is blank (empty or white space only) and it has no tags.
C15_EmptyIffBlankAndNoTags ==
  /\ Ready
     => (isEmpty(rendered) <=> (Blank(Draft.text) /\ Len(Draft.tags) = 0))
  /\ ShortcutPressed
     => (last.calls = <<>>
           <=> (Blank(last.pre.text) /\ Len(last.pre.tags) = 0))

\* C15 (amended): the shortcut handler takes the draft for empty exactly
\* when its text is the empty string and it has no tags; a draft with a text
\* of one character or more, white space included, or with a tag is never
\* taken for empty.
C15_EmptyIffNoTextAndNoTags ==
  /\ Ready
     => (isEmpty(rendered) <=> (Draft.text = <<>> /\ Len(Draft.tags) = 0))
  /\ ShortcutPressed
     => (last.calls = <<>>
           <=> (last.pre.text = <<>> /\ Len(last.pre.tags) = 0))

\* Ctrl+Enter on a draft with no tags and a text of one space: the draft
\* was not taken for empty and was saved.
C15_Witness ==
  /\ ShortcutPressed
  /\ last.pre.text = <<" ">>
  /\ last.pre.tags = <<>>
  /\ Calls("annotationsService.save") = 1
  /\ last.stopped

\* C16: while a save is in flight the text and tag handlers are enabled and
\* their edits reach the draft; when the save resolves or rejects the draft
\* is the one the last edit left: the resolution stores nothing.
C16_EditsDuringSaveStand ==
  /\ (inflight > 0 /\ Ready)
     => (ENABLED EditText /\ ENABLED AddTag /\ ENABLED RemoveTag)
  /\ (inflight > 0 /\ last.op = "editText")
     => (Draft.text = last.arg /\ Draft.tags = last.pre.tags)
  /\ (inflight > 0 /\ last.op = "addTag" /\ Trimmed(last.arg) # <<>>
        /\ ~In(Trimmed(last.arg), last.pre.tags))
     => Draft.tags = Append(last.pre.tags, Trimmed(last.arg))
  /\ (inflight > 0 /\ last.op = "removeTag" /\ In(last.arg, last.pre.tags))
     => (~In(last.arg, Draft.tags) /\ Len(Draft.tags) = Len(last.pre.tags) - 1)
  /\ last.op \in {"saveResolved", "saveRejected"}
     => (Draft = last.pre /\ Calls("createDraft") = 0)

\* With a save in flight a tag was removed from the draft.
C16_Witness ==
  /\ inflight > 0
  /\ last.op = "removeTag"
  /\ last.ret = TRUE
  /\ Len(Draft.tags) = Len(last.pre.tags) - 1

\* The tags after addTag(c), resp. removeTag(x), applied to the tags S, as
\* the contract of the tag editor gives them.
SeqAdd(S, c) ==
  IF Trimmed(c) = <<>> \/ In(Trimmed(c), S) THEN S ELSE Append(S, Trimmed(c))

SeqRemove(S, x) ==
  IF In(x, S)
    THEN LET i == CHOOSE k \in 1..Len(S) :
                    S[k] = x /\ \A j \in 1..(k - 1) : S[j] # x
         IN  [j \in 1..(Len(S) - 1) |-> IF j < i THEN S[j] ELSE S[j + 1]]
    ELSE S

\* The tags after the tag events of a run, each with the string x, applied
\* one after another to the tags S.
RECURSIVE ApplyEdits(_, _, _)
ApplyEdits(S, run, x) ==
  IF run = <<>> THEN S
  ELSE ApplyEdits(IF Head(run).op = "addTag" THEN SeqAdd(S, x)
                                             ELSE SeqRemove(S, x),
                  Tail(run), x)

\* The operations of a run of tag events, in order.
OpsOf(run) == [i \in 1..Len(run) |-> run[i].op]

\* The return values of a run of tag events, in order.
RetsOf(run) == [i \in 1..Len(run) |-> run[i].ret]

\* C17: every tag edit (addTag, removeTag, the addTag of a save's flush) is
\* computed from the draft the edit before it left in the store: the tags
\* after an event are the edit of the event applied to the tags in the store
\* before it, never to an older tag sequence, and the tags after a run of
\* tag events are the edits of the run applied one after another to the
\* tags before the run.
C17_TagEditsApplyInTurn ==
  /\ last.op = "addTag" => Draft.tags = SeqAdd(last.pre.tags, last.arg)
  /\ last.op = "removeTag" => Draft.tags = SeqRemove(last.pre.tags, last.arg)
  /\ SaveCalled => Draft.tags = SeqAdd(last.pre.tags, last.arg)
  /\ last.run # <<>>
     => Draft.tags = ApplyEdits(last.base, last.run, last.arg)

\* Three tag events in a row with a padded string on a draft with a tag:
\* the first addTag appended the trimmed tag, the second found it, and
\* removeTag did not find the padded string.
C17_Witness ==
  /\ last.op = "removeTag"
  /\ OpsOf(last.run) = <<"addTag", "addTag", "removeTag">>
  /\ RetsOf(last.run) = <<TRUE, FALSE, FALSE>>
  /\ Len(last.base) >= 1
  /\ Draft.tags = Append(last.base, Trimmed(last.arg))

\* C18: on tags S without the trimmed, non-empty tag t, addTag(t) followed
\* by removeTag(t) both return true and leave exactly S; with addTag(t)
\* called a second time in between the returns are true, false, true and
\* the tags are S again (from [] back to []).
C18_AddThenRemoveRestores ==
  (/\ last.op = "removeTag"
   /\ last.arg # <<>>
   /\ Trimmed(last.arg) = last.arg
   /\ ~In(last.arg, last.base))
  => /\ OpsOf(last.run) = <<"addTag", "removeTag">>
        => (RetsOf(last.run) = <<TRUE, TRUE>> /\ Draft.tags = last.base)
     /\ OpsOf(last.run) = <<"addTag", "addTag", "removeTag">>
        => (RetsOf(last.run) = <<TRUE, FALSE, TRUE>> /\ Draft.tags = last.base)

\* From a draft without tags: addTag(t) true, addTag(t) false, removeTag(t)
\* true, and the tags are [] again.
C18_Witness ==
  /\ last.op = "removeTag"
  /\ last.base = <<>>
  /\ last.arg # <<>>
  /\ OpsOf(last.run) = <<"addTag", "addTag", "removeTag">>
  /\ RetsOf(last.run) = <<TRUE, FALSE, TRUE>>
  /\ Draft.tags = <<>>

\* The tag records of a tag sequence: one {text: tag} per tag, in order.
RecordsOf(tags) == [i \in 1..Len(tags) |-> [text |-> tags[i]]]

\* C19: an addTag that returns true calls the tag-suggestion store exactly
\* once, with the records of the whole new tag sequence (the old tags and
\* the new trimmed tag, in order), which is the draft's tag sequence from
\* then on; an addTag that returns false and every removeTag call it not at
\* all.  The same holds of the addTag of a save's flush.
C19_StoreGetsWholeList ==
  /\ (last.op = "addTag" /\ last.ret = TRUE)
     => /\ Calls("tagsService.store") = 1
        /\ last.stored = RecordsOf(Append(last.pre.tags, Trimmed(last.arg)))
        /\ last.stored = RecordsOf(Draft.tags)
  /\ (last.op = "addTag" /\ last.ret = FALSE)
     => (Calls("tagsService.store") = 0 /\ last.stored = <<>>)
  /\ last.op = "removeTag"
     => (Calls("tagsService.store") = 0 /\ last.stored = <<>>)
  /\ SaveCalled
     => IF Draft.tags # last.pre.tags
          THEN /\ Calls("tagsService.store") = 1
               /\ last.stored = RecordsOf(Draft.tags)
          ELSE Calls("tagsService.store") = 0 /\ last.stored = <<>>

\* A padded third tag was added and the store got the records of all three.
C19_Witness ==
  /\ last.op = "addTag"
  /\ last.ret = TRUE
  /\ last.arg # Trimmed(last.arg)
  /\ Len(last.stored) = 3
  /\ last.stored[3] = [text |-> Trimmed(last.arg)]
  /\ last.stored[1] = [text |-> last.pre.tags[1]]

\* C20: an edit replaces its own field only: no event of the component
\* changes the draft's isPrivate or annotation, addTag and removeTag (and a
\* save with its flush) leave the text, and a text edit sets the text and
\* leaves the tags.
C20_EditsKeepOtherFields ==
  /\ (last.op \in CoreOps /\ last.pre # NullDraft)
     => /\ Draft.isPrivate = last.pre.isPrivate
        /\ Draft.annotation = last.pre.annotation
  /\ last.op \in CoreOps \ {"editText"} => Draft.text = last.pre.text
  /\ last.op = "editText"
     => (Draft.text = last.arg /\ Draft.tags = last.pre.tags)

\* A tag was removed from a private draft with text: text and isPrivate
\* stayed.
C20_Witness ==
  /\ last.op = "removeTag"
  /\ last.ret = TRUE
  /\ last.pre.isPrivate = TRUE
  /\ last.pre.text # <<>>
  /\ Draft.isPrivate = TRUE
  /\ Draft.text = last.pre.text
  /\ Draft.tags # last.pre.tags

====
